---- MODULE Spec2Model ----
(***************************************************************************)
(* elysiajs-cdn-cache: the Cache-Control header controllers.               *)
(*                                                                         *)
(* The repository holds two controllers named CDNCache:                    *)
(*   - the targeted controller (src/unnamed/part_001): constructed per     *)
(*     request from {cacheControlHeaders, headers, set}; every setter      *)
(*     takes an optional target and decides suppression per header;        *)
(*   - the request controller (src/src/CDNCache.ts): constructed once by   *)
(*     the cdnCache plugin; every setter takes {request, headers}.         *)
(* Its definitions carry the prefix Req.                                   *)
(*                                                                         *)
(* It also holds two classes named CacheControl, and the cacheControl      *)
(* plugin that hands them to a handler:                                    *)
(*   - the class with one field per directive and fluent setters           *)
(*     (src/src/CacheControl.ts); its definitions carry the prefix CC;     *)
(*   - the class with a `directives` record and get/set                    *)
(*     (src/unnamed/part_002); its definitions carry the prefix Dir.       *)
(*                                                                         *)
(* Strings are sequences of lexical atoms: a word ("no-store", "Private"), *)
(* a digit, or one of the characters "," "=" " ".  The string "a, b=1" is  *)
(* <<"a", ",", " ", "b", "=", "1">>.  A header name is one word.           *)
(***************************************************************************)
EXTENDS Integers, Sequences, FiniteSets

VARIABLES
    impl,                 \* what serves the request: "targeted" | "request" | "cacheControl"
    args,                 \* the header names handed to the plugin (rest parameter)
    configured,           \* the header names handed to the constructor, as written
    cacheControlHeaders,  \* this.cacheControlHeaders
    request,              \* the inbound Request's header values (Headers: keys fold case)
    headers,              \* Context["headers"]: the inbound header record
    setHeaders,           \* Context["set"].headers: the outbound header record
    requestDirectives,    \* this.requestDirectives (targeted controller)
    passed,               \* request controller: the record the handler passes as `headers`
    last,                 \* the last setter call: its name, target and numeric argument (0: none)
    ncalls,               \* setter calls made so far
    klass,                \* the CacheControl class in use: "CacheControl.ts" | "part_002" | "none"
    cc,                   \* the handler's CacheControl: its fields, or the own properties
                          \* of its `directives` in insertion order
    parked                \* the other request in flight, whose handler is not running

vars == <<impl, args, configured, cacheControlHeaders, request, headers, setHeaders,
          requestDirectives, passed, last, ncalls, klass, cc, parked>>

----------------------------------------------------------------------------
(* Bounds and input alphabets *)

\* A call visits one slot per configured header; calls * headers stays below this.
MaxSlotVisits == 3

\* Setter calls the handlers of two requests in flight make together.
MaxInterleavedCalls == 2

\* Values handed to the numeric setters.
Seconds == {0, 60, 120}

HeaderNames == {"Cache-Control", "cache-control", "CDN-Cache-Control", "cdn-cache-control"}

\* Constructor arguments: one header, two headers, one header spelled twice.
Configs == { <<"Cache-Control">>,
             <<"Cache-Control", "CDN-Cache-Control">>,
             <<"Cache-Control", "cache-control">> }

\* Arguments of the plugins: none, or a list of header names.
PluginArgs == {<<>>} \cup Configs

\* `undefined` / `null` (a string is never this sequence: "undefined" is no atom of one).
Undefined == <<"undefined">>

\* Inbound values of one header: absent, "no-store", "private", "public" and
\* "max-age=60, No-Store".
InboundValues == { Undefined,
                   <<"no-store">>,
                   <<"private">>,
                   <<"public">>,
                   <<"max-age", "=", "6", "0", ",", " ", "No-Store">> }

----------------------------------------------------------------------------
(* JavaScript primitives on strings *)

\* Truthiness of `string | undefined`: undefined and "" are falsy.
Truthy(v) == v # Undefined /\ v # <<>>

\* String.prototype.toLowerCase on one atom.
toLowerCaseAtom(a) ==
    CASE a = "Cache-Control"     -> "cache-control"
      [] a = "CDN-Cache-Control" -> "cdn-cache-control"
      [] a = "No-Store"          -> "no-store"
      [] a = "Private"           -> "private"
      [] a = "Public"            -> "public"
      [] OTHER                   -> a

\* String.prototype.toLowerCase.
toLowerCase(s) == [i \in 1..Len(s) |-> toLowerCaseAtom(s[i])]

\* String.prototype.split(sep): the pieces between the occurrences of sep.
RECURSIVE split(_, _)
split(s, sep) ==
    IF \E i \in 1..Len(s) : s[i] = sep
    THEN LET i == CHOOSE k \in 1..Len(s) :
                     s[k] = sep /\ \A j \in 1..(k - 1) : s[j] # sep
         IN  <<SubSeq(s, 1, i - 1)>> \o split(SubSeq(s, i + 1, Len(s)), sep)
    ELSE <<s>>

\* String.prototype.trim.
RECURSIVE trim(_)
trim(s) ==
    IF s # <<>> /\ Head(s) = " " THEN trim(Tail(s))
    ELSE IF s # <<>> /\ s[Len(s)] = " " THEN trim(SubSeq(s, 1, Len(s) - 1))
    ELSE s

\* `${n}` for a non-negative integer: its decimal digits.
RECURSIVE ToString(_)
ToString(n) ==
    LET d == <<"0", "1", "2", "3", "4", "5", "6", "7", "8", "9">>
    IN  IF n < 10 THEN <<d[n + 1]>> ELSE ToString(n \div 10) \o <<d[(n % 10) + 1]>>

Range(s) == {s[i] : i \in 1..Len(s)}

----------------------------------------------------------------------------
(* The targeted controller (src/unnamed/part_001) *)

\* The `target` argument: undefined, one name, or an array of names.
NoTarget == [kind |-> "undefined", names |-> <<>>]
OneTarget(n) == [kind |-> "string", names |-> <<n>>]
ArrayTarget(ns) == [kind |-> "array", names |-> ns]

\* Targets the type TCacheControlHeader admits: the configured names as written;
\* arrays as long as the configuration.
Targets ==
    {NoTarget}
    \cup {OneTarget(n) : n \in Range(configured)}
    \cup {ArrayTarget(ns) : ns \in [1..Len(configured) -> Range(configured)]}

getRequestCacheControlHeaders(cch, hdrs) ==
    [h \in Range(cch) |-> hdrs[h]]

\* Mutant: the directive names are compared without folding their case.
parseCacheControlDirectives_CaseSensitive(cacheControlValue) ==
    LET parts == split(cacheControlValue, ",")
    IN  { split(trim(parts[i]), "=")[1] : i \in 1..Len(parts) }

parseCacheControlDirectives(cacheControlValue) ==
    LET parts == split(cacheControlValue, ",")
    IN  { toLowerCase(split(trim(parts[i]), "=")[1]) : i \in 1..Len(parts) }

\* Record<header, Set<directive> | undefined>: a header without a truthy inbound
\* value has no entry.
getRequestCacheControlDirectives(cch, hdrs) ==
    LET requestCacheControl == getRequestCacheControlHeaders(cch, hdrs)
    IN  [h \in {x \in Range(cch) : Truthy(requestCacheControl[x])} |->
            parseCacheControlDirectives(requestCacheControl[h])]

\* this.requestDirectives[header]?.has(directive)
has(header, directive) ==
    /\ header \in DOMAIN requestDirectives
    /\ <<directive>> \in requestDirectives[header]

\* Mutant: target names are used as written, without lower-casing.
getTargetCacheControlHeaders_NoLowerCase(target) ==
    IF target.kind = "undefined" THEN cacheControlHeaders
    ELSE IF target.kind = "array" THEN target.names
    ELSE <<target.names[1]>>

\* Mutant: a call without target reaches the first configured header only.
getTargetCacheControlHeaders_FirstOnly(target) ==
    IF target.kind = "undefined" THEN <<cacheControlHeaders[1]>>
    ELSE IF target.kind = "array"
         THEN [i \in 1..Len(target.names) |-> toLowerCaseAtom(target.names[i])]
         ELSE <<toLowerCaseAtom(target.names[1])>>

getTargetCacheControlHeaders(target) ==
    IF target.kind = "undefined" THEN cacheControlHeaders
    ELSE IF target.kind = "array"
         THEN [i \in 1..Len(target.names) |-> toLowerCaseAtom(target.names[i])]
         ELSE <<toLowerCaseAtom(target.names[1])>>

\* Mutant: the value "0" counts as absent, as the number 0 would.
Item_ZeroIsAbsent(directive, value) ==
    IF Truthy(value) /\ value # <<"0">> THEN <<directive, "=">> \o value ELSE <<directive>>

\* The item appended for a directive and its optional value.
Item(directive, value) ==
    IF Truthy(value) THEN <<directive, "=">> \o value ELSE <<directive>>

\* Mutant: the item is put in front of the value the slot holds.
appendToResponseHeaders_Prepend(hdrs, target, directive, value) ==
    LET item == Item(directive, value)
    IN  IF Truthy(hdrs[target])
        THEN [hdrs EXCEPT ![target] = item \o <<",", " ">> \o hdrs[target]]
        ELSE [hdrs EXCEPT ![target] = item]

\* Mutant: an item the slot already ends with is not appended again.
appendToResponseHeaders_OncePerItem(hdrs, target, directive, value) ==
    LET item == Item(directive, value)
        held == hdrs[target]
    IN  IF Truthy(held)
        THEN IF /\ Len(held) >= Len(item)
                /\ SubSeq(held, Len(held) - Len(item) + 1, Len(held)) = item
             THEN hdrs
             ELSE [hdrs EXCEPT ![target] = held \o <<",", " ">> \o item]
        ELSE [hdrs EXCEPT ![target] = item]

\* The record set.headers after appending to the slot of target.
appendToResponseHeaders(hdrs, target, directive, value) ==
    LET item == Item(directive, value)
    IN  IF Truthy(hdrs[target])
        THEN [hdrs EXCEPT ![target] = hdrs[target] \o <<",", " ">> \o item]
        ELSE [hdrs EXCEPT ![target] = item]

\* No other request is in flight.
NoRequest ==
    [id |-> 0, request |-> <<>>, headers |-> <<>>, setHeaders |-> <<>>,
     requestDirectives |-> <<>>, last |-> <<>>, ncalls |-> 0]

\* Frame of a setter call of the targeted controller.
Call(op, target, value, hdrs) ==
    /\ impl = "targeted"
    /\ (ncalls + 1) * Len(cacheControlHeaders) <= MaxSlotVisits
    /\ parked.id # 0 => ncalls + parked.ncalls < MaxInterleavedCalls
    /\ setHeaders' = hdrs
    /\ last' = [op |-> op, target |-> target, value |-> value]
    /\ ncalls' = ncalls + 1
    /\ UNCHANGED <<impl, args, configured, cacheControlHeaders, request, headers,
                   requestDirectives, passed, klass, cc, parked>>

\* Mutant: max-age is also withheld when the request names private.
setMaxAge_AlsoPrivate(target, maxAge) ==
    LET targets == getTargetCacheControlHeaders(target)
        loop[i \in 0..Len(targets)] ==
            IF i = 0 THEN setHeaders
            ELSE IF has(targets[i], "no-store") THEN loop[i - 1]
            ELSE IF has(targets[i], "private") THEN loop[i - 1]
            ELSE appendToResponseHeaders(loop[i - 1], targets[i], "max-age", ToString(maxAge))
    IN  Call("setMaxAge", target, maxAge, loop[Len(targets)])

setMaxAge(target, maxAge) ==
    LET targets == getTargetCacheControlHeaders(target)
        \* loop[i]: set.headers after the first i iterations of the for loop
        loop[i \in 0..Len(targets)] ==
            IF i = 0 THEN setHeaders
            ELSE IF has(targets[i], "no-store") THEN loop[i - 1]
            ELSE appendToResponseHeaders(loop[i - 1], targets[i], "max-age", ToString(maxAge))
    IN  Call("setMaxAge", target, maxAge, loop[Len(targets)])

setSMaxAge(target, sMaxAge) ==
    LET targets == getTargetCacheControlHeaders(target)
        \* loop[i]: set.headers after the first i iterations of the for loop
        loop[i \in 0..Len(targets)] ==
            IF i = 0 THEN setHeaders
            ELSE IF has(targets[i], "no-store") THEN loop[i - 1]
            ELSE IF has(targets[i], "private") THEN loop[i - 1]
            ELSE appendToResponseHeaders(loop[i - 1], targets[i], "s-maxage", ToString(sMaxAge))
    IN  Call("setSMaxAge", target, sMaxAge, loop[Len(targets)])

setNoCache(target) ==
    LET targets == getTargetCacheControlHeaders(target)
        \* loop[i]: set.headers after the first i iterations of the for loop
        loop[i \in 0..Len(targets)] ==
            IF i = 0 THEN setHeaders
            ELSE IF has(targets[i], "no-store") THEN loop[i - 1]
            ELSE appendToResponseHeaders(loop[i - 1], targets[i], "no-cache", Undefined)
    IN  Call("setNoCache", target, 0, loop[Len(targets)])

\* Mutant: no-store is withheld like the other directives when the request names
\* no-store.
setNoStore_Guarded(target) ==
    LET targets == getTargetCacheControlHeaders(target)
        loop[i \in 0..Len(targets)] ==
            IF i = 0 THEN setHeaders
            ELSE IF has(targets[i], "no-store") THEN loop[i - 1]
            ELSE appendToResponseHeaders(loop[i - 1], targets[i], "no-store", Undefined)
    IN  Call("setNoStore", target, 0, loop[Len(targets)])

setNoStore(target) ==
    LET targets == getTargetCacheControlHeaders(target)
        \* loop[i]: set.headers after the first i iterations of the for loop
        loop[i \in 0..Len(targets)] ==
            IF i = 0 THEN setHeaders
            ELSE appendToResponseHeaders(loop[i - 1], targets[i], "no-store", Undefined)
    IN  Call("setNoStore", target, 0, loop[Len(targets)])

setNoTransform(target) ==
    LET targets == getTargetCacheControlHeaders(target)
        \* loop[i]: set.headers after the first i iterations of the for loop
        loop[i \in 0..Len(targets)] ==
            IF i = 0 THEN setHeaders
            ELSE appendToResponseHeaders(loop[i - 1], targets[i], "no-transform", Undefined)
    IN  Call("setNoTransform", target, 0, loop[Len(targets)])

setMustRevalidate(target) ==
    LET targets == getTargetCacheControlHeaders(target)
        \* loop[i]: set.headers after the first i iterations of the for loop
        loop[i \in 0..Len(targets)] ==
            IF i = 0 THEN setHeaders
            ELSE IF has(targets[i], "no-store") THEN loop[i - 1]
            ELSE appendToResponseHeaders(loop[i - 1], targets[i], "must-revalidate", Undefined)
    IN  Call("setMustRevalidate", target, 0, loop[Len(targets)])

setProxyRevalidate(target) ==
    LET targets == getTargetCacheControlHeaders(target)
        \* loop[i]: set.headers after the first i iterations of the for loop
        loop[i \in 0..Len(targets)] ==
            IF i = 0 THEN setHeaders
            ELSE IF has(targets[i], "no-store") THEN loop[i - 1]
            ELSE IF has(targets[i], "private") THEN loop[i - 1]
            ELSE appendToResponseHeaders(loop[i - 1], targets[i], "proxy-revalidate", Undefined)
    IN  Call("setProxyRevalidate", target, 0, loop[Len(targets)])

setMustUnderstand(target) ==
    LET targets == getTargetCacheControlHeaders(target)
        \* loop[i]: set.headers after the first i iterations of the for loop
        loop[i \in 0..Len(targets)] ==
            IF i = 0 THEN setHeaders
            ELSE IF has(targets[i], "no-store") THEN loop[i - 1]
            ELSE appendToResponseHeaders(loop[i - 1], targets[i], "must-understand", Undefined)
    IN  Call("setMustUnderstand", target, 0, loop[Len(targets)])

\* Mutant: the test for an inbound public is missing.
setPrivate_NoPublicCheck(target) ==
    LET targets == getTargetCacheControlHeaders(target)
        loop[i \in 0..Len(targets)] ==
            IF i = 0 THEN setHeaders
            ELSE IF has(targets[i], "no-store") THEN loop[i - 1]
            ELSE appendToResponseHeaders(loop[i - 1], targets[i], "private", Undefined)
    IN  Call("setPrivate", target, 0, loop[Len(targets)])

setPrivate(target) ==
    LET targets == getTargetCacheControlHeaders(target)
        \* loop[i]: set.headers after the first i iterations of the for loop
        loop[i \in 0..Len(targets)] ==
            IF i = 0 THEN setHeaders
            ELSE IF has(targets[i], "no-store") THEN loop[i - 1]
            ELSE IF has(targets[i], "public") THEN loop[i - 1]
            ELSE appendToResponseHeaders(loop[i - 1], targets[i], "private", Undefined)
    IN  Call("setPrivate", target, 0, loop[Len(targets)])

\* Mutant: public is also withheld from a slot that already holds private.
setPublic_ChecksResponse(target) ==
    LET targets == getTargetCacheControlHeaders(target)
        loop[i \in 0..Len(targets)] ==
            IF i = 0 THEN setHeaders
            ELSE IF has(targets[i], "no-store") THEN loop[i - 1]
            ELSE IF has(targets[i], "private") THEN loop[i - 1]
            ELSE IF \E j \in 1..Len(loop[i - 1][targets[i]]) :
                        loop[i - 1][targets[i]][j] = "private"
            THEN loop[i - 1]
            ELSE appendToResponseHeaders(loop[i - 1], targets[i], "public", Undefined)
    IN  Call("setPublic", target, 0, loop[Len(targets)])

setPublic(target) ==
    LET targets == getTargetCacheControlHeaders(target)
        \* loop[i]: set.headers after the first i iterations of the for loop
        loop[i \in 0..Len(targets)] ==
            IF i = 0 THEN setHeaders
            ELSE IF has(targets[i], "no-store") THEN loop[i - 1]
            ELSE IF has(targets[i], "private") THEN loop[i - 1]
            ELSE appendToResponseHeaders(loop[i - 1], targets[i], "public", Undefined)
    IN  Call("setPublic", target, 0, loop[Len(targets)])

setImmutable(target) ==
    LET targets == getTargetCacheControlHeaders(target)
        \* loop[i]: set.headers after the first i iterations of the for loop
        loop[i \in 0..Len(targets)] ==
            IF i = 0 THEN setHeaders
            ELSE IF has(targets[i], "no-store") THEN loop[i - 1]
            ELSE appendToResponseHeaders(loop[i - 1], targets[i], "immutable", Undefined)
    IN  Call("setImmutable", target, 0, loop[Len(targets)])

setStaleWhileRevalidate(target, staleWhileRevalidateSeconds) ==
    LET targets == getTargetCacheControlHeaders(target)
        \* loop[i]: set.headers after the first i iterations of the for loop
        loop[i \in 0..Len(targets)] ==
            IF i = 0 THEN setHeaders
            ELSE IF has(targets[i], "no-store") THEN loop[i - 1]
            ELSE appendToResponseHeaders(loop[i - 1], targets[i], "stale-while-revalidate", ToString(staleWhileRevalidateSeconds))
    IN  Call("setStaleWhileRevalidate", target, staleWhileRevalidateSeconds, loop[Len(targets)])

setStaleIfError(target, staleIfErrorSeconds) ==
    LET targets == getTargetCacheControlHeaders(target)
        \* loop[i]: set.headers after the first i iterations of the for loop
        loop[i \in 0..Len(targets)] ==
            IF i = 0 THEN setHeaders
            ELSE IF has(targets[i], "no-store") THEN loop[i - 1]
            ELSE appendToResponseHeaders(loop[i - 1], targets[i], "stale-if-error", ToString(staleIfErrorSeconds))
    IN  Call("setStaleIfError", target, staleIfErrorSeconds, loop[Len(targets)])

----------------------------------------------------------------------------
(* The request controller (src/src/CDNCache.ts) *)

\* request.headers.get(header) for each configured header; Headers.get folds the
\* case of the name and gives null for a missing header.
Req_getRequestCacheControlHeaders(req) ==
    [i \in 1..Len(cacheControlHeaders) |-> req[toLowerCaseAtom(cacheControlHeaders[i])]]

\* One Set for the whole request: the union over the configured headers.
Req_getRequestCacheControlDirectives(req) ==
    LET requestCacheControl == Req_getRequestCacheControlHeaders(req)
    IN  UNION { parseCacheControlDirectives(requestCacheControl[i]) :
                  i \in {k \in 1..Len(requestCacheControl) : Truthy(requestCacheControl[k])} }

\* The record the handler passes as `headers`.
Req_passedRecord == IF passed = "headers" THEN headers ELSE setHeaders

\* Appends the item to the slot of every configured header of the passed record.
Req_appendToResponseHeaders(hdrs, key, value) ==
    LET item == Item(key, value)
        \* loop[i]: the record after the first i iterations of the for loop
        loop[i \in 0..Len(cacheControlHeaders)] ==
            IF i = 0 THEN hdrs
            ELSE LET header == cacheControlHeaders[i]
                 IN  [loop[i - 1] EXCEPT ![header] =
                        IF Truthy(loop[i - 1][header])
                        THEN loop[i - 1][header] \o <<",", " ">> \o item
                        ELSE item]
    IN  loop[Len(cacheControlHeaders)]

\* Frame of a setter call of the request controller: the returned record is the
\* passed one, mutated in place.
Req_Call(op, value, hdrs) ==
    /\ impl = "request"
    /\ (ncalls + 1) * Len(cacheControlHeaders) <= MaxSlotVisits
    /\ parked.id # 0 => ncalls + parked.ncalls < MaxInterleavedCalls
    /\ IF passed = "headers"
       THEN headers' = hdrs /\ UNCHANGED setHeaders
       ELSE setHeaders' = hdrs /\ UNCHANGED headers
    /\ last' = [op |-> op, target |-> NoTarget, value |-> value]
    /\ ncalls' = ncalls + 1
    /\ UNCHANGED <<impl, args, configured, cacheControlHeaders, request,
                   requestDirectives, passed, klass, cc, parked>>

Req_setMaxAge(maxAge) ==
    LET requestDirectives_ == Req_getRequestCacheControlDirectives(request)
    IN  Req_Call("setMaxAge", maxAge,
            IF <<"no-store">> \in requestDirectives_ THEN Req_passedRecord
            ELSE Req_appendToResponseHeaders(Req_passedRecord, "max-age", ToString(maxAge)))

Req_setSMaxAge(sMaxAge) ==
    LET requestDirectives_ == Req_getRequestCacheControlDirectives(request)
    IN  Req_Call("setSMaxAge", sMaxAge,
            IF <<"no-store">> \in requestDirectives_ THEN Req_passedRecord
            ELSE IF <<"private">> \in requestDirectives_ THEN Req_passedRecord
            ELSE Req_appendToResponseHeaders(Req_passedRecord, "s-maxage", ToString(sMaxAge)))

Req_setNoCache ==
    LET requestDirectives_ == Req_getRequestCacheControlDirectives(request)
    IN  Req_Call("setNoCache", 0,
            IF <<"no-store">> \in requestDirectives_ THEN Req_passedRecord
            ELSE Req_appendToResponseHeaders(Req_passedRecord, "no-cache", Undefined))

Req_setNoStore ==
    Req_Call("setNoStore", 0,
            Req_appendToResponseHeaders(Req_passedRecord, "no-store", Undefined))

Req_setNoTransform ==
    Req_Call("setNoTransform", 0,
            Req_appendToResponseHeaders(Req_passedRecord, "no-transform", Undefined))

Req_setMustRevalidate ==
    LET requestDirectives_ == Req_getRequestCacheControlDirectives(request)
    IN  Req_Call("setMustRevalidate", 0,
            IF <<"no-store">> \in requestDirectives_ THEN Req_passedRecord
            ELSE Req_appendToResponseHeaders(Req_passedRecord, "must-revalidate", Undefined))

Req_setProxyRevalidate ==
    LET requestDirectives_ == Req_getRequestCacheControlDirectives(request)
    IN  Req_Call("setProxyRevalidate", 0,
            IF <<"no-store">> \in requestDirectives_ THEN Req_passedRecord
            ELSE IF <<"private">> \in requestDirectives_ THEN Req_passedRecord
            ELSE Req_appendToResponseHeaders(Req_passedRecord, "proxy-revalidate", Undefined))

Req_setMustUnderstand ==
    LET requestDirectives_ == Req_getRequestCacheControlDirectives(request)
    IN  Req_Call("setMustUnderstand", 0,
            IF <<"no-store">> \in requestDirectives_ THEN Req_passedRecord
            ELSE Req_appendToResponseHeaders(Req_passedRecord, "must-understand", Undefined))

Req_setPrivate ==
    LET requestDirectives_ == Req_getRequestCacheControlDirectives(request)
    IN  Req_Call("setPrivate", 0,
            IF <<"no-store">> \in requestDirectives_ THEN Req_passedRecord
            ELSE IF <<"public">> \in requestDirectives_ THEN Req_passedRecord
            ELSE Req_appendToResponseHeaders(Req_passedRecord, "private", Undefined))

Req_setPublic ==
    LET requestDirectives_ == Req_getRequestCacheControlDirectives(request)
    IN  Req_Call("setPublic", 0,
            IF <<"no-store">> \in requestDirectives_ THEN Req_passedRecord
            ELSE IF <<"private">> \in requestDirectives_ THEN Req_passedRecord
            ELSE Req_appendToResponseHeaders(Req_passedRecord, "public", Undefined))

Req_setImmutable ==
    LET requestDirectives_ == Req_getRequestCacheControlDirectives(request)
    IN  Req_Call("setImmutable", 0,
            IF <<"no-store">> \in requestDirectives_ THEN Req_passedRecord
            ELSE Req_appendToResponseHeaders(Req_passedRecord, "immutable", Undefined))

Req_setStaleWhileRevalidate(staleWhileRevalidateSeconds) ==
    LET requestDirectives_ == Req_getRequestCacheControlDirectives(request)
    IN  Req_Call("setStaleWhileRevalidate", staleWhileRevalidateSeconds,
            IF <<"no-store">> \in requestDirectives_ THEN Req_passedRecord
            ELSE Req_appendToResponseHeaders(Req_passedRecord, "stale-while-revalidate", ToString(staleWhileRevalidateSeconds)))

Req_setStaleIfError(staleIfErrorSeconds) ==
    LET requestDirectives_ == Req_getRequestCacheControlDirectives(request)
    IN  Req_Call("setStaleIfError", staleIfErrorSeconds,
            IF <<"no-store">> \in requestDirectives_ THEN Req_passedRecord
            ELSE Req_appendToResponseHeaders(Req_passedRecord, "stale-if-error", ToString(staleIfErrorSeconds)))

----------------------------------------------------------------------------
(* Construction and the handler's calls *)

\* The inbound values a request carries for the configured headers.
Requests(cfg) ==
    { r \in [{toLowerCaseAtom(n) : n \in HeaderNames} -> InboundValues] :
        \A n \in DOMAIN r :
            n \notin {toLowerCaseAtom(c) : c \in Range(cfg)} => r[n] = Undefined }

\* Context["headers"] of a request: its header values under lower-cased keys.
ContextHeaders(req) ==
    [n \in HeaderNames |-> IF n \in DOMAIN req THEN req[n] ELSE Undefined]

\* new CDNCache({cacheControlHeaders, headers, set}) of the targeted controller.
InitTargeted ==
    /\ impl = "targeted"
    /\ configured \in Configs
    /\ args = configured
    /\ klass = "none"
    /\ cc = <<>>
    /\ parked = NoRequest
    /\ cacheControlHeaders = [i \in 1..Len(configured) |-> toLowerCaseAtom(configured[i])]
    /\ request \in Requests(configured)
    /\ headers = ContextHeaders(request)
    /\ setHeaders = [n \in HeaderNames |-> Undefined]
    /\ requestDirectives = getRequestCacheControlDirectives(cacheControlHeaders, headers)
    /\ passed = "set.headers"
    /\ last = [op |-> "constructor", target |-> NoTarget, value |-> 0]
    /\ ncalls = 0

\* Mutant: cdnCache hands its arguments on as they are, without a default.
cdnCache_NoDefault(cacheControlHeaders_) == cacheControlHeaders_

\* cdnCache(...cacheControlHeaders): the list handed to new CDNCache.
cdnCache(cacheControlHeaders_) ==
    IF Len(cacheControlHeaders_) # 0 THEN cacheControlHeaders_ ELSE <<"Cache-Control">>

\* cdnCache(...) and new CDNCache(cacheControlHeaders) of the request controller,
\* and a request whose handler passes either Context["headers"] or
\* Context["set"].headers.
InitRequest ==
    /\ impl = "request"
    /\ args \in PluginArgs
    /\ configured = cdnCache(args)
    /\ klass = "none"
    /\ cc = <<>>
    /\ parked = NoRequest
    /\ cacheControlHeaders = configured
    /\ request \in Requests(configured)
    /\ headers = ContextHeaders(request)
    /\ setHeaders = [n \in HeaderNames |-> Undefined]
    /\ requestDirectives = <<>>
    /\ passed \in {"headers", "set.headers"}
    /\ last = [op |-> "constructor", target |-> NoTarget, value |-> 0]
    /\ ncalls = 0

Init == InitTargeted \/ InitRequest

NextTargeted ==
    \/ \E target \in Targets, n \in Seconds : setMaxAge(target, n)
    \/ \E target \in Targets, n \in Seconds : setSMaxAge(target, n)
    \/ \E target \in Targets : setNoCache(target)
    \/ \E target \in Targets : setNoStore(target)
    \/ \E target \in Targets : setNoTransform(target)
    \/ \E target \in Targets : setMustRevalidate(target)
    \/ \E target \in Targets : setProxyRevalidate(target)
    \/ \E target \in Targets : setMustUnderstand(target)
    \/ \E target \in Targets : setPrivate(target)
    \/ \E target \in Targets : setPublic(target)
    \/ \E target \in Targets : setImmutable(target)
    \/ \E target \in Targets, n \in Seconds : setStaleWhileRevalidate(target, n)
    \/ \E target \in Targets, n \in Seconds : setStaleIfError(target, n)

NextRequest ==
    \/ \E n \in Seconds : Req_setMaxAge(n)
    \/ \E n \in Seconds : Req_setSMaxAge(n)
    \/ Req_setNoCache
    \/ Req_setNoStore
    \/ Req_setNoTransform
    \/ Req_setMustRevalidate
    \/ Req_setProxyRevalidate
    \/ Req_setMustUnderstand
    \/ Req_setPrivate
    \/ Req_setPublic
    \/ Req_setImmutable
    \/ \E n \in Seconds : Req_setStaleWhileRevalidate(n)
    \/ \E n \in Seconds : Req_setStaleIfError(n)

Next == NextTargeted \/ NextRequest

Spec == Init /\ [][Next]_vars

----------------------------------------------------------------------------
(* Two requests in flight *)

\* Configurations and inbound values of the requests in flight.
InterleavedConfigs == {<<"Cache-Control">>}

InterleavedRequests(cfg) ==
    {r \in Requests(cfg) :
        \A n \in DOMAIN r : r[n] \in {Undefined, <<"no-store">>, <<"private">>}}

\* A request that arrived and whose handler has not run yet; for the targeted
\* controller a new CDNCache({cacheControlHeaders, headers, set}) was constructed
\* for it.
Arrived(id, req) ==
    [id |-> id,
     request |-> req,
     headers |-> ContextHeaders(req),
     setHeaders |-> [n \in HeaderNames |-> Undefined],
     requestDirectives |->
         IF impl = "targeted"
         THEN getRequestCacheControlDirectives(cacheControlHeaders, ContextHeaders(req))
         ELSE <<>>,
     last |-> [op |-> "constructor", target |-> NoTarget, value |-> 0],
     ncalls |-> 0]

\* Mutant: one controller serves every request, with the directives it parsed
\* when it was constructed.
requestDirectivesOf_Shared(ctx) == requestDirectives

\* this.requestDirectives of the controller that serves the request of a context:
\* the targeted controller constructed for it holds its own; the process-wide
\* request controller holds none.
requestDirectivesOf(ctx) == ctx.requestDirectives

\* The running handler awaits and the handler of the other request runs on: its
\* Context (request, headers, set) and its controller take the place of the
\* current ones.
Switch ==
    /\ parked.id # 0
    /\ parked' = [id |-> 3 - parked.id,
                  request |-> request,
                  headers |-> headers,
                  setHeaders |-> setHeaders,
                  requestDirectives |-> requestDirectives,
                  last |-> last,
                  ncalls |-> ncalls]
    /\ request' = parked.request
    /\ headers' = parked.headers
    /\ setHeaders' = parked.setHeaders
    /\ requestDirectives' = requestDirectivesOf(parked)
    /\ last' = parked.last
    /\ ncalls' = parked.ncalls
    /\ UNCHANGED <<impl, args, configured, cacheControlHeaders, passed, klass, cc>>

\* Two requests to the same route; the handler of the first is running.
InitInterleaved ==
    /\ impl \in {"targeted", "request"}
    /\ args \in InterleavedConfigs
    /\ configured = args
    /\ cacheControlHeaders =
           IF impl = "targeted"
           THEN [i \in 1..Len(configured) |-> toLowerCaseAtom(configured[i])]
           ELSE configured
    /\ request \in InterleavedRequests(configured)
    /\ headers = ContextHeaders(request)
    /\ setHeaders = [n \in HeaderNames |-> Undefined]
    /\ requestDirectives =
           IF impl = "targeted"
           THEN getRequestCacheControlDirectives(cacheControlHeaders, headers)
           ELSE <<>>
    /\ passed \in IF impl = "targeted" THEN {"set.headers"} ELSE {"headers", "set.headers"}
    /\ last = [op |-> "constructor", target |-> NoTarget, value |-> 0]
    /\ ncalls = 0
    /\ klass = "none"
    /\ cc = <<>>
    /\ parked \in {Arrived(2, r) : r \in InterleavedRequests(configured)}

SpecInterleaved == InitInterleaved /\ [][NextTargeted \/ NextRequest \/ Switch]_vars

----------------------------------------------------------------------------
(* JavaScript values and objects of the CacheControl classes *)

\* The values a directive can hold.
JsUndefined == [type |-> "undefined", num |-> 0]
JsTrue == [type |-> "boolean", num |-> 1]
JsFalse == [type |-> "boolean", num |-> 0]
JsNaN == [type |-> "NaN", num |-> 0]
JsNumber(n) == [type |-> "number", num |-> n]

\* typeof value ("number" for NaN as well).
typeof(v) == IF v.type = "NaN" THEN "number" ELSE v.type

\* isNaN / Number.isNaN on a number.
isNaN(v) == v.type = "NaN"

Digits == <<"0", "1", "2", "3", "4", "5", "6", "7", "8", "9">>

DigitValue(a) == (CHOOSE i \in 1..Len(Digits) : Digits[i] = a) - 1

\* The value of a sequence of digits.
RECURSIVE DigitsValue(_)
DigitsValue(ds) ==
    IF ds = <<>> THEN 0
    ELSE 10 * DigitsValue(SubSeq(ds, 1, Len(ds) - 1)) + DigitValue(ds[Len(ds)])

\* Mutant: a string without digits parses to 0.
parseInt_ZeroWithoutDigits(string) ==
    LET RECURSIVE trimStart(_)
        trimStart(t) == IF t # <<>> /\ Head(t) = " " THEN trimStart(Tail(t)) ELSE t
        t0 == trimStart(string)
        signed == t0 # <<>> /\ Head(t0) \in {"-", "+"}
        body == IF signed THEN Tail(t0) ELSE t0
        n == Cardinality({k \in 1..Len(body) :
                            \A j \in 1..k : \E i \in 1..Len(Digits) : Digits[i] = body[j]})
        magnitude == DigitsValue(SubSeq(body, 1, n))
    IN  IF signed /\ Head(t0) = "-" THEN JsNumber(0 - magnitude) ELSE JsNumber(magnitude)

\* parseInt(string): leading white space, an optional sign, then the longest run
\* of digits; NaN when there is no digit.
parseInt(string) ==
    LET RECURSIVE trimStart(_)
        trimStart(t) == IF t # <<>> /\ Head(t) = " " THEN trimStart(Tail(t)) ELSE t
        t0 == trimStart(string)
        signed == t0 # <<>> /\ Head(t0) \in {"-", "+"}
        body == IF signed THEN Tail(t0) ELSE t0
        n == Cardinality({k \in 1..Len(body) :
                            \A j \in 1..k : \E i \in 1..Len(Digits) : Digits[i] = body[j]})
        magnitude == DigitsValue(SubSeq(body, 1, n))
    IN  IF n = 0 THEN JsNaN
        ELSE IF signed /\ Head(t0) = "-" THEN JsNumber(0 - magnitude)
        ELSE JsNumber(magnitude)

\* `${value}` for a number.
NumberToString(v) ==
    IF isNaN(v) THEN <<"NaN">>
    ELSE IF v.num < 0 THEN <<"-">> \o ToString(0 - v.num)
    ELSE ToString(v.num)

\* Array.prototype.join.
RECURSIVE join(_, _)
join(parts, sep) ==
    IF parts = <<>> THEN <<>>
    ELSE IF Len(parts) = 1 THEN parts[1]
    ELSE parts[1] \o sep \o join(Tail(parts), sep)

\* obj[key] for an object kept as its own properties in insertion order.
GetProperty(obj, key) ==
    IF \E i \in 1..Len(obj) : obj[i].key = key
    THEN obj[CHOOSE i \in 1..Len(obj) : obj[i].key = key].value
    ELSE JsUndefined

\* obj[key] = value: an existing property keeps its place, a new one goes last.
SetProperty(obj, key, value) ==
    IF \E i \in 1..Len(obj) : obj[i].key = key
    THEN [i \in 1..Len(obj) |->
             IF obj[i].key = key THEN [key |-> key, value |-> value] ELSE obj[i]]
    ELSE Append(obj, [key |-> key, value |-> value])

\* Lower-case property names every object literal inherits from Object.prototype,
\* and String(value) of what they hold.
ObjectPrototype == [constructor |-> "function Object() { [native code] }"]

----------------------------------------------------------------------------
(* CacheControl, src/src/CacheControl.ts (prefix CC) *)

\* Object.entries(cacheControlDirectiveMap): the directives and their kinds, in
\* the order the literal lists them.
cacheControlDirectiveEntries ==
    << <<"max-age", "number">>,
       <<"s-maxage", "number">>,
       <<"no-cache", "boolean">>,
       <<"no-store", "boolean">>,
       <<"must-revalidate", "boolean">>,
       <<"proxy-revalidate", "boolean">>,
       <<"public", "boolean">>,
       <<"private", "boolean">>,
       <<"immutable", "boolean">>,
       <<"stale-while-revalidate", "number">>,
       <<"stale-if-error", "number">>,
       <<"no-transform", "boolean">>,
       <<"must-understand", "boolean">> >>

\* cacheControlDirectiveMap[key] for a string key: the kind of an own key, the
\* inherited function for "constructor", undefined otherwise.
cacheControlDirectiveMap(key) ==
    IF Len(key) # 1 THEN "undefined"
    ELSE IF \E i \in 1..Len(cacheControlDirectiveEntries) :
                cacheControlDirectiveEntries[i][1] = key[1]
    THEN cacheControlDirectiveEntries[
             CHOOSE i \in 1..Len(cacheControlDirectiveEntries) :
                 cacheControlDirectiveEntries[i][1] = key[1]][2]
    ELSE IF key[1] \in DOMAIN ObjectPrototype THEN "function"
    ELSE "undefined"

\* The fields the class declares, one per directive.
CC_Fields == {cacheControlDirectiveEntries[i][1] : i \in 1..Len(cacheControlDirectiveEntries)}

\* An instance no field of which was assigned.
CC_empty == [directive \in CC_Fields |-> JsUndefined]

\* Mutant: a numeric directive that already holds a number keeps it.
CC_parse_FirstWins(this, headerValue) ==
    LET pieces == split(headerValue, ",")
        directives == [i \in 1..Len(pieces) |-> trim(pieces[i])]
        loop[i \in 0..Len(directives)] ==
            IF i = 0 THEN this
            ELSE LET kv == split(toLowerCase(directives[i]), "=")
                     key == kv[1]
                     rawValue == IF Len(kv) >= 2 THEN kv[2] ELSE Undefined
                     type == cacheControlDirectiveMap(key)
                 IN  IF type = "boolean" THEN [loop[i - 1] EXCEPT ![key[1]] = JsTrue]
                     ELSE IF type = "number" /\ rawValue # Undefined
                     THEN LET num == parseInt(rawValue)
                          IN  IF ~isNaN(num) /\ loop[i - 1][key[1]] = JsUndefined
                              THEN [loop[i - 1] EXCEPT ![key[1]] = num]
                              ELSE loop[i - 1]
                     ELSE loop[i - 1]
    IN  loop[Len(directives)]

\* CacheControl.parse: the object after parsing headerValue into it.
CC_parse(this, headerValue) ==
    LET pieces == split(headerValue, ",")
        directives == [i \in 1..Len(pieces) |-> trim(pieces[i])]
        \* loop[i]: this after the first i iterations of the for loop
        loop[i \in 0..Len(directives)] ==
            IF i = 0 THEN this
            ELSE LET kv == split(toLowerCase(directives[i]), "=")
                     key == kv[1]
                     rawValue == IF Len(kv) >= 2 THEN kv[2] ELSE Undefined
                     type == cacheControlDirectiveMap(key)
                 IN  IF type = "boolean" THEN [loop[i - 1] EXCEPT ![key[1]] = JsTrue]
                     ELSE IF type = "number" /\ rawValue # Undefined
                     THEN LET num == parseInt(rawValue)
                          IN  IF ~isNaN(num) THEN [loop[i - 1] EXCEPT ![key[1]] = num]
                              ELSE loop[i - 1]
                     ELSE loop[i - 1]
    IN  loop[Len(directives)]

\* new CacheControl(value).
CC_constructor(value) ==
    IF value # Undefined THEN CC_parse(CC_empty, value) ELSE CC_empty

\* Mutant: a numeric directive is emitted only when its value is truthy.
CC_toString_TruthyNumbers(this) ==
    LET loop[i \in 0..Len(cacheControlDirectiveEntries)] ==
            IF i = 0 THEN <<>>
            ELSE LET directive == cacheControlDirectiveEntries[i][1]
                     type == cacheControlDirectiveEntries[i][2]
                     value == this[directive]
                 IN  IF type = "boolean" /\ value = JsTrue
                     THEN Append(loop[i - 1], <<directive>>)
                     ELSE IF type = "number" /\ typeof(value) = "number"
                                             /\ ~isNaN(value) /\ value.num # 0
                     THEN Append(loop[i - 1], <<directive, "=">> \o NumberToString(value))
                     ELSE loop[i - 1]
    IN  join(loop[Len(cacheControlDirectiveEntries)], <<",", " ">>)

\* CacheControl.toString.
CC_toString(this) ==
    LET \* loop[i]: parts after the first i entries
        loop[i \in 0..Len(cacheControlDirectiveEntries)] ==
            IF i = 0 THEN <<>>
            ELSE LET directive == cacheControlDirectiveEntries[i][1]
                     type == cacheControlDirectiveEntries[i][2]
                     value == this[directive]
                 IN  IF type = "boolean" /\ value = JsTrue
                     THEN Append(loop[i - 1], <<directive>>)
                     ELSE IF type = "number" /\ typeof(value) = "number"
                     THEN Append(loop[i - 1], <<directive, "=">> \o NumberToString(value))
                     ELSE loop[i - 1]
    IN  join(loop[Len(cacheControlDirectiveEntries)], <<",", " ">>)

----------------------------------------------------------------------------
(* CacheControl, src/unnamed/part_002 (prefix Dir) *)

BooleanCacheControlDirectiveNames ==
    {"no-cache", "no-store", "must-revalidate", "proxy-revalidate",
     "must-understand", "private", "public"}

NumberCacheControlDirectiveNames ==
    {"max-age", "s-maxage", "stale-while-revalidate", "stale-if-error"}

\* map[key] for a string key of an object literal that maps each of names to
\* itself: the name, String of the inherited value, or "undefined".
LiteralLookup(names, key) ==
    IF Len(key) # 1 THEN "undefined"
    ELSE IF key[1] \in names THEN key[1]
    ELSE IF key[1] \in DOMAIN ObjectPrototype THEN ObjectPrototype[key[1]]
    ELSE "undefined"

BooleanCacheControlDirectiveMap(key) == LiteralLookup(BooleanCacheControlDirectiveNames, key)

NumberCacheControlDirectiveMap(key) == LiteralLookup(NumberCacheControlDirectiveNames, key)

\* CacheControl.parse: this.directives after parsing headerValue into it.
Dir_parse(this, headerValue) ==
    LET pieces == split(headerValue, ",")
        directives == [i \in 1..Len(pieces) |-> trim(pieces[i])]
        \* loop[i]: this.directives after the first i iterations of the for loop
        loop[i \in 0..Len(directives)] ==
            IF i = 0 THEN this
            ELSE LET kv == split(toLowerCase(directives[i]), "=")
                     rawDirective == kv[1]
                     rawDirectiveValue == IF Len(kv) >= 2 THEN kv[2] ELSE Undefined
                     booleanDirective == BooleanCacheControlDirectiveMap(rawDirective)
                     numberDirective == NumberCacheControlDirectiveMap(rawDirective)
                 IN  IF booleanDirective # "undefined"
                     THEN SetProperty(loop[i - 1], booleanDirective, JsTrue)
                     ELSE IF numberDirective # "undefined" /\ rawDirectiveValue # Undefined
                     THEN LET directiveValue == parseInt(rawDirectiveValue)
                          IN  IF ~isNaN(directiveValue)
                              THEN SetProperty(loop[i - 1], numberDirective, directiveValue)
                              ELSE loop[i - 1]
                     ELSE loop[i - 1]
    IN  loop[Len(directives)]

\* new CacheControl(value).
Dir_constructor(value) ==
    IF value # Undefined THEN Dir_parse(<<>>, value) ELSE <<>>

\* CacheControl.get.
Dir_get(this, directive) == GetProperty(this, directive)

\* CacheControl.toString.
Dir_toString(this) ==
    LET \* loop[i]: parts after the first i keys of this.directives
        loop[i \in 0..Len(this)] ==
            IF i = 0 THEN <<>>
            ELSE LET directive == this[i].key
                     value == this[i].value
                 IN  IF value = JsFalse \/ value = JsUndefined THEN loop[i - 1]
                     ELSE IF value = JsTrue THEN Append(loop[i - 1], <<directive>>)
                     ELSE IF ~isNaN(value)
                     THEN Append(loop[i - 1], <<directive, "=">> \o NumberToString(value))
                     ELSE loop[i - 1]
    IN  join(loop[Len(this)], <<",", " ">>)

----------------------------------------------------------------------------
(* The cacheControl plugin and a handler that builds a CacheControl *)

\* Builder calls (new, get, setters) a handler makes on its CacheControl.
MaxSets == 3

\* Strings handed to new CacheControl.
HeaderStrings ==
    { <<>>,
      <<"public", ",", " ", "max-age", "=", "6", "0", ",", " ", "bogus-directive",
        ",", " ", "s-maxage", "=", "abc">>,
      <<"max-age">>,
      <<"max-age", "=">>,
      <<"s-maxage", "=", "abc">>,
      <<"max-age", "=", "-", "5">>,
      <<"constructor">>,
      <<"No-Store", ",", " ", "immutable", ",", " ", "no-transform">>,
      <<"public", ",", " ", "max-age", "=", ",", " ", "s-maxage", "=", "6", "0">>,
      <<"max-age", "=", "1", "0", ",", " ", "max-age", "=", "2", "0">>,
      <<"public", ",", " ", "max-age", "=", "2", "0", ",", " ", "Public", ",", " ",
        "max-age", "=", "1", "0">> }

\* Arguments of the boolean and of the numeric fluent setters.
BooleanValues == {JsTrue, JsFalse, JsUndefined}

NumberValues == {JsNumber(0), JsNumber(60), JsNumber(120), JsNaN, JsUndefined}

\* Arguments of set(directive, value): the typed ones, and the two calls the
\* README shows on directives the class does not list.
Dir_setArguments ==
    (BooleanCacheControlDirectiveNames \X BooleanValues)
        \cup (NumberCacheControlDirectiveNames
                \X {JsNumber(0), JsNumber(60), JsNumber(3600), JsNaN, JsUndefined})
        \cup {<<"immutable", JsTrue>>, <<"no-transform", JsTrue>>}

\* cacheControl(...cacheControlHeaders): the header names the derive reduces over.
cacheControl(cacheControlHeaders_) ==
    IF Len(cacheControlHeaders_) # 0 THEN cacheControlHeaders_ ELSE <<"Cache-Control">>

\* Frame of a builder call: the handler's object becomes obj.  The handler
\* builds an object and assigns it; after an assignment it goes on with a fresh
\* object, from new CacheControl or from get().
Build(op, value, obj) ==
    /\ impl = "cacheControl"
    /\ ncalls < MaxSets
    /\ \/ \A n \in HeaderNames : setHeaders[n] = Undefined
       \/ op \in {"new", "cacheControl.get"}
    /\ cc' = obj
    /\ last' = [op |-> op, target |-> NoTarget, value |-> value]
    /\ ncalls' = ncalls + 1
    /\ UNCHANGED <<impl, args, configured, cacheControlHeaders, request, headers,
                   setHeaders, requestDirectives, passed, klass, parked>>

\* new CacheControl(value) of either class.
CacheControl(value) ==
    Build("new", value,
          IF klass = "CacheControl.ts" THEN CC_constructor(value) ELSE Dir_constructor(value))

\* cacheControl[header].get().
cacheControl_get(header) ==
    LET key == toLowerCaseAtom(header)
    IN  Build("cacheControl.get", headers[key],
              IF klass = "CacheControl.ts" THEN CC_constructor(headers[key])
              ELSE Dir_constructor(headers[key]))

\* Mutant: the string is appended to what the slot holds.
cacheControl_set_Appends(header) ==
    LET key == toLowerCaseAtom(header)
        string == IF klass = "CacheControl.ts" THEN CC_toString(cc) ELSE Dir_toString(cc)
    IN  /\ impl = "cacheControl"
        /\ setHeaders' = [setHeaders EXCEPT ![key] =
                             IF Truthy(setHeaders[key])
                             THEN setHeaders[key] \o <<",", " ">> \o string
                             ELSE string]
        /\ last' = [op |-> "cacheControl.set", target |-> OneTarget(header), value |-> Undefined]
        /\ UNCHANGED <<impl, args, configured, cacheControlHeaders, request, headers,
                       requestDirectives, passed, ncalls, klass, cc, parked>>

\* cacheControl[header].set(value) with the handler's object.
cacheControl_set(header) ==
    LET key == toLowerCaseAtom(header)
    IN  /\ impl = "cacheControl"
        /\ setHeaders' = [setHeaders EXCEPT ![key] =
                             IF klass = "CacheControl.ts" THEN CC_toString(cc)
                             ELSE Dir_toString(cc)]
        /\ last' = [op |-> "cacheControl.set", target |-> OneTarget(header), value |-> Undefined]
        /\ UNCHANGED <<impl, args, configured, cacheControlHeaders, request, headers,
                       requestDirectives, passed, ncalls, klass, cc, parked>>

\* Frame of a fluent setter: this[directive] = value.
CC_set(op, directive, value) ==
    /\ klass = "CacheControl.ts"
    /\ Build(op, Undefined, [cc EXCEPT ![directive] = value])

CC_setMaxAge(value) == CC_set("setMaxAge", "max-age", value)

CC_setSMaxage(value) == CC_set("setSMaxage", "s-maxage", value)

CC_setNoCache(value) == CC_set("setNoCache", "no-cache", value)

CC_setNoStore(value) == CC_set("setNoStore", "no-store", value)

CC_setNoTransform(value) == CC_set("setNoTransform", "no-transform", value)

CC_setMustUnderstand(value) == CC_set("setMustUnderstand", "must-understand", value)

CC_setMustRevalidate(value) == CC_set("setMustRevalidate", "must-revalidate", value)

CC_setProxyRevalidate(value) == CC_set("setProxyRevalidate", "proxy-revalidate", value)

CC_setPublic(value) == CC_set("setPublic", "public", value)

CC_setPrivate(value) == CC_set("setPrivate", "private", value)

CC_setImmutable(value) == CC_set("setImmutable", "immutable", value)

CC_setStaleWhileRevalidate(value) ==
    CC_set("setStaleWhileRevalidate", "stale-while-revalidate", value)

CC_setStaleIfError(value) == CC_set("setStaleIfError", "stale-if-error", value)

\* CacheControl.set(directive, value): this.directives[directive] = value.
Dir_set(directive, value) ==
    /\ klass = "part_002"
    /\ Build("set", Undefined, SetProperty(cc, directive, value))

\* The inbound values of a request to the plugin: each managed header carries
\* "No-Store, max-age=60".
PluginRequests(cfg) ==
    { r \in [{toLowerCaseAtom(n) : n \in HeaderNames} ->
                {Undefined, <<"No-Store", ",", " ", "max-age", "=", "6", "0">>}] :
        \A n \in DOMAIN r :
            r[n] = Undefined <=> n \notin {toLowerCaseAtom(c) : c \in Range(cfg)} }

\* cacheControl(...) in use, and a request whose handler starts from
\* new CacheControl().
InitCacheControl ==
    /\ impl = "cacheControl"
    /\ args \in {<<>>, <<"CDN-Cache-Control">>}
    /\ configured = cacheControl(args)
    /\ cacheControlHeaders = configured
    /\ klass \in {"CacheControl.ts", "part_002"}
    /\ request \in PluginRequests(configured)
    /\ headers = ContextHeaders(request)
    /\ setHeaders = [n \in HeaderNames |-> Undefined]
    /\ requestDirectives = <<>>
    /\ passed = "set.headers"
    /\ last = [op |-> "constructor", target |-> NoTarget, value |-> Undefined]
    /\ ncalls = 0
    /\ cc = IF klass = "CacheControl.ts" THEN CC_empty ELSE <<>>
    /\ parked = NoRequest

NextCacheControl ==
    \/ \E value \in HeaderStrings \cup {Undefined} : CacheControl(value)
    \/ \E header \in Range(configured) : cacheControl_get(header)
    \/ \E header \in Range(configured) : cacheControl_set(header)
    \/ \E value \in NumberValues : CC_setMaxAge(value)
    \/ \E value \in NumberValues : CC_setSMaxage(value)
    \/ \E value \in BooleanValues : CC_setNoCache(value)
    \/ \E value \in BooleanValues : CC_setNoStore(value)
    \/ \E value \in BooleanValues : CC_setNoTransform(value)
    \/ \E value \in BooleanValues : CC_setMustUnderstand(value)
    \/ \E value \in BooleanValues : CC_setMustRevalidate(value)
    \/ \E value \in BooleanValues : CC_setProxyRevalidate(value)
    \/ \E value \in BooleanValues : CC_setPublic(value)
    \/ \E value \in BooleanValues : CC_setPrivate(value)
    \/ \E value \in BooleanValues : CC_setImmutable(value)
    \/ \E value \in NumberValues : CC_setStaleWhileRevalidate(value)
    \/ \E value \in NumberValues : CC_setStaleIfError(value)
    \/ \E a \in Dir_setArguments : Dir_set(a[1], a[2])

\* A handler building a CacheControl and assigning it through the plugin.
SpecCacheControl == InitCacheControl /\ [][NextCacheControl]_vars

\* cacheControl("Cache-Control", "CDN-Cache-Control") in use: a handler that is
\* given one get/set pair per header.
InitHandler ==
    /\ impl = "cacheControl"
    /\ args = <<"Cache-Control", "CDN-Cache-Control">>
    /\ configured = cacheControl(args)
    /\ cacheControlHeaders = configured
    /\ klass \in {"CacheControl.ts", "part_002"}
    /\ request \in PluginRequests(configured)
    /\ headers = ContextHeaders(request)
    /\ setHeaders = [n \in HeaderNames |-> Undefined]
    /\ requestDirectives = <<>>
    /\ passed = "set.headers"
    /\ last = [op |-> "constructor", target |-> NoTarget, value |-> Undefined]
    /\ ncalls = 0
    /\ cc = IF klass = "CacheControl.ts" THEN CC_empty ELSE <<>>
    /\ parked = NoRequest

SpecHandler == InitHandler /\ [][NextCacheControl]_vars

\* Both plugins: cdnCache with its process-wide controller, and cacheControl.
SpecPlugins == (InitRequest \/ InitCacheControl) /\ [][NextRequest \/ NextCacheControl]_vars

----------------------------------------------------------------------------
(* Vocabulary of the properties *)

\* The configured headers, case folded.
ConfiguredHeaders == {toLowerCaseAtom(c) : c \in Range(configured)}

\* The spellings of header h.
Spellings(h) == {n \in HeaderNames : toLowerCaseAtom(n) = h}

\* The inbound value v names directive d: d, in any letter case, stands at the
\* start of a comma-separated piece of v.
ContainsDirective(v, d) ==
    /\ v # Undefined
    /\ \E i \in 1..Len(v) :
          /\ toLowerCaseAtom(v[i]) = d
          /\ \E b \in 0..(i - 1) :
                /\ b = 0 \/ v[b] = ","
                /\ \A j \in (b + 1)..(i - 1) : v[j] = " "
          /\ \E e \in (i + 1)..(Len(v) + 1) :
                /\ e = Len(v) + 1 \/ v[e] \in {",", "="}
                /\ \A j \in (i + 1)..(e - 1) : v[j] = " "

\* The step is a setter call.
IsCall == ncalls' = ncalls + 1

\* The headers the call of the step resolves its target to, case folded, in order.
ResolvedTargets ==
    IF impl = "request" \/ last'.target.kind = "undefined"
    THEN [i \in 1..Len(configured) |-> toLowerCaseAtom(configured[i])]
    ELSE [i \in 1..Len(last'.target.names) |-> toLowerCaseAtom(last'.target.names[i])]

\* How often header h is among the resolved targets.
Occurrences(h) == Cardinality({i \in 1..Len(ResolvedTargets) : ResolvedTargets[i] = h})

\* The directive each setter writes.
DirectiveOf ==
    [ setMaxAge |-> "max-age", setSMaxAge |-> "s-maxage", setNoCache |-> "no-cache",
      setNoStore |-> "no-store", setNoTransform |-> "no-transform",
      setMustRevalidate |-> "must-revalidate", setProxyRevalidate |-> "proxy-revalidate",
      setMustUnderstand |-> "must-understand", setPrivate |-> "private",
      setPublic |-> "public", setImmutable |-> "immutable",
      setStaleWhileRevalidate |-> "stale-while-revalidate",
      setStaleIfError |-> "stale-if-error" ]

\* The suppression table: the inbound directives that suppress each setter.
SuppressedWhen ==
    [ setMaxAge |-> {"no-store"}, setSMaxAge |-> {"no-store", "private"},
      setNoCache |-> {"no-store"}, setNoStore |-> {}, setNoTransform |-> {},
      setMustRevalidate |-> {"no-store"}, setProxyRevalidate |-> {"no-store", "private"},
      setMustUnderstand |-> {"no-store"}, setPrivate |-> {"no-store", "public"},
      setPublic |-> {"no-store", "private"}, setImmutable |-> {"no-store"},
      setStaleWhileRevalidate |-> {"no-store"}, setStaleIfError |-> {"no-store"} ]

NumericSetters == {"setMaxAge", "setSMaxAge", "setStaleWhileRevalidate", "setStaleIfError"}

\* The decimal numeral of each value of Seconds.
Decimal(n) ==
    CASE n = 0   -> <<"0">>
      [] n = 60  -> <<"6", "0">>
      [] n = 120 -> <<"1", "2", "0">>

\* The token of the call of the step: the bare directive, or directive=value.
TokenOfCall ==
    IF last'.op \in NumericSetters
    THEN <<DirectiveOf[last'.op], "=">> \o Decimal(last'.value)
    ELSE <<DirectiveOf[last'.op]>>

\* A slot value v with token tok appended k times: an empty slot takes the token
\* verbatim, a filled one takes ", " and the token.
RECURSIVE Appended(_, _, _)
Appended(v, tok, k) ==
    IF k = 0 THEN v
    ELSE Appended(IF v = Undefined \/ v = <<>> THEN tok ELSE v \o <<",", " ">> \o tok,
                  tok, k - 1)

\* The record the controller is given to write: set.headers, or for the request
\* controller the record its caller passes.
Outbound == IF passed = "headers" THEN headers ELSE setHeaders

\* The keys under which the controller keeps the slot of a configured header h.
SlotKeys(h) ==
    IF impl = "targeted" THEN {h} ELSE {c \in Range(configured) : toLowerCaseAtom(c) = h}

\* How often the call of the step visits the slot kept under key k.
SlotVisits(k) ==
    IF impl = "targeted" THEN Occurrences(k)
    ELSE Cardinality({i \in 1..Len(configured) : configured[i] = k})

\* Some directive that suppresses the call of the step is named by header h's
\* own inbound value.
SuppressedFor(h) ==
    \E d \in SuppressedWhen[last'.op] : ContainsDirective(request[h], d)

----------------------------------------------------------------------------
(* Properties *)

\* C1: a setter other than setNoStore and setNoTransform leaves every outbound
\* slot of a configured header whose inbound value names no-store exactly as it
\* was before the call.
C1_NoStoreSuppresses ==
    [][ (IsCall /\ last'.op \notin {"setNoStore", "setNoTransform"}) =>
          \A h \in ConfiguredHeaders :
              ContainsDirective(request[h], "no-store") =>
                  \A n \in Spellings(h) :
                      setHeaders'[n] = setHeaders[n] /\ headers'[n] = headers[n] ]_vars

\* A setStaleIfError call aimed at a header whose inbound value is
\* "max-age=60, No-Store" has returned and the slot is still unset.
C1_Witness ==
    /\ impl = "targeted"
    /\ last.op = "setStaleIfError"
    /\ last.target = OneTarget("Cache-Control")
    /\ request["cache-control"] = <<"max-age", "=", "6", "0", ",", " ", "No-Store">>
    /\ setHeaders["cache-control"] = Undefined

\* C2: setSMaxAge, setProxyRevalidate and setPublic append nothing to the slots of
\* a header whose inbound value names private, and setPrivate appends nothing to
\* the slots of a header whose inbound value names public.
C2_PrivatePublicExclusive ==
    [][ IsCall =>
          \A h \in ConfiguredHeaders :
              ( \/ /\ ContainsDirective(request[h], "private")
                    /\ last'.op \in {"setSMaxAge", "setProxyRevalidate", "setPublic"}
                 \/ /\ ContainsDirective(request[h], "public")
                    /\ last'.op = "setPrivate" )
              => \A n \in Spellings(h) :
                     setHeaders'[n] = setHeaders[n] /\ headers'[n] = headers[n] ]_vars

\* setPrivate() has returned on a controller whose header came in as "public",
\* and the slot is still unset.
C2_Witness ==
    /\ impl = "targeted"
    /\ last.op = "setPrivate"
    /\ last.target = NoTarget
    /\ request["cache-control"] = <<"public">>
    /\ setHeaders["cache-control"] = Undefined

\* C3: setNoStore and setNoTransform are never suppressed: whatever the inbound
\* values, the call appends its token to the slot of every resolved target, once
\* for each time the target is resolved.
C3_NoStoreNoTransformAlwaysAppend ==
    [][ (IsCall /\ last'.op \in {"setNoStore", "setNoTransform"}) =>
          \A h \in ConfiguredHeaders : \A k \in SlotKeys(h) :
              SlotVisits(k) >= 1 =>
                  /\ Outbound'[k] = Appended(Outbound[k], TokenOfCall, SlotVisits(k))
                  /\ Outbound'[k] # Outbound[k] ]_vars

\* setNoStore() has appended no-store for a header that came in as "no-store".
C3_Witness ==
    /\ impl = "targeted"
    /\ last.op = "setNoStore"
    /\ request["cache-control"] = <<"no-store">>
    /\ setHeaders["cache-control"] = <<"no-store">>

\* C4 (targeted controller): a call whose target header's own inbound value names
\* none of the directives the suppression table lists for the setter appends its
\* token to that header's slot, once for each time the target is resolved.
C4_SuppressedOnlyByTable ==
    [][ (IsCall /\ impl = "targeted") =>
          \A h \in ConfiguredHeaders :
              (Occurrences(h) >= 1 /\ ~SuppressedFor(h)) =>
                  /\ setHeaders'[h] = Appended(setHeaders[h], TokenOfCall, Occurrences(h))
                  /\ setHeaders'[h] # setHeaders[h] ]_vars

\* setMaxAge(60) has appended max-age=60 for a header that came in as "private".
C4_Witness ==
    /\ impl = "targeted"
    /\ last.op = "setMaxAge"
    /\ last.value = 60
    /\ request["cache-control"] = <<"private">>
    /\ setHeaders["cache-control"] = <<"max-age", "=", "6", "0">>

\* C5: suppression is decided per header: a call appends to the slot of a header
\* it resolves as target if and only if that header's own inbound value names none
\* of the directives that suppress the setter, whatever the other configured
\* headers received.
C5_SuppressionPerHeader ==
    [][ IsCall =>
          \A h \in ConfiguredHeaders : \A k \in SlotKeys(h) :
              SlotVisits(k) >= 1 =>
                  (Outbound'[k] # Outbound[k] <=> ~SuppressedFor(h)) ]_vars

\* C6: outbound values are append-only and ordered by call: a call leaves every
\* slot holding what it held, followed by zero or more copies of the call's token,
\* each joined by ", " (an empty slot takes the token verbatim); so on a controller
\* for "Cache-Control" without inbound value, setPublic(), setSMaxAge(120),
\* setMaxAge(60) build "public", "public, s-maxage=120" and
\* "public, s-maxage=120, max-age=60".
C6_AppendOnlyInCallOrder ==
    [][ IsCall =>
          /\ \A n \in HeaderNames :
                \E k \in 0..Len(ResolvedTargets) :
                    Outbound'[n] = Appended(Outbound[n], TokenOfCall, k)
          /\ ( /\ configured = <<"Cache-Control">>
               /\ request["cache-control"] = Undefined
               /\ last'.target = NoTarget )
             => \A k \in SlotKeys("cache-control") :
                  /\ (Outbound[k] = Undefined /\ last'.op = "setPublic")
                        => Outbound'[k] = <<"public">>
                  /\ ( /\ Outbound[k] = <<"public">>
                       /\ last'.op = "setSMaxAge" /\ last'.value = 120 )
                        => Outbound'[k] = <<"public", ",", " ", "s-maxage", "=", "1", "2", "0">>
                  /\ ( /\ Outbound[k] = <<"public", ",", " ", "s-maxage", "=", "1", "2", "0">>
                       /\ last'.op = "setMaxAge" /\ last'.value = 60 )
                        => Outbound'[k] = <<"public", ",", " ", "s-maxage", "=", "1", "2", "0",
                                            ",", " ", "max-age", "=", "6", "0">> ]_vars

\* Three calls on a controller for "Cache-Control" without inbound value have
\* built "public, s-maxage=120, max-age=60".
C6_Witness ==
    /\ impl = "targeted"
    /\ configured = <<"Cache-Control">>
    /\ request["cache-control"] = Undefined
    /\ ncalls = 3
    /\ last.op = "setMaxAge" /\ last.target = NoTarget
    /\ setHeaders["cache-control"] =
           <<"public", ",", " ", "s-maxage", "=", "1", "2", "0", ",", " ", "max-age", "=", "6", "0">>

\* C7 (targeted controller): a call without target appends to the slot of every
\* configured header when no header has an inbound value; a call with a single
\* name changes no slot but that header's.
C7_TargetResolution ==
    [][ (IsCall /\ impl = "targeted") =>
          /\ ( /\ last'.target = NoTarget
               /\ \A h \in ConfiguredHeaders : request[h] = Undefined )
             => \A h \in ConfiguredHeaders :
                    /\ setHeaders'[h] # setHeaders[h]
                    /\ setHeaders'[h] =
                          Appended(setHeaders[h], TokenOfCall,
                                   Cardinality({i \in 1..Len(configured) :
                                                  toLowerCaseAtom(configured[i]) = h}))
          /\ last'.target.kind = "string"
             => \A n \in HeaderNames :
                    n # toLowerCaseAtom(last'.target.names[1])
                        => setHeaders'[n] = setHeaders[n] ]_vars

\* setPublic() without target has appended public to both slots of a controller
\* configured with two header names.
C7_Witness ==
    /\ impl = "targeted"
    /\ configured = <<"Cache-Control", "CDN-Cache-Control">>
    /\ last.op = "setPublic" /\ last.target = NoTarget
    /\ request["cache-control"] = Undefined /\ request["cdn-cache-control"] = Undefined
    /\ setHeaders["cache-control"] = <<"public">>
    /\ setHeaders["cdn-cache-control"] = <<"public">>

\* C8: no setter modifies the inbound header map: after any sequence of calls the
\* map holds what the request brought, and all writes are in set.headers.
C8_InboundNeverModified ==
    headers = ContextHeaders(request)

C10_NamesLowerCased ==
    [][ IsCall =>
          /\ \A n \in HeaderNames :
                Outbound'[n] # Outbound[n] => n = toLowerCaseAtom(n)
          /\ (impl = "targeted" /\ last'.target.kind = "string")
             => LET h == toLowerCaseAtom(last'.target.names[1])
                IN  (setHeaders'[h] # setHeaders[h]) <=> ~SuppressedFor(h) ]_vars

----------------------------------------------------------------------------
(* Properties of the CacheControl classes *)

\* The directives and their kinds, in the order the data model lists them.
CanonicalOrder ==
    <<"max-age", "s-maxage", "no-cache", "no-store", "no-transform", "must-revalidate",
      "proxy-revalidate", "must-understand", "private", "public", "immutable",
      "stale-while-revalidate", "stale-if-error">>

NumericDirectives == {"max-age", "s-maxage", "stale-while-revalidate", "stale-if-error"}

BooleanDirectives == Range(CanonicalOrder) \ NumericDirectives

\* What an object of the class in use holds for a directive.
ValueIn(obj, d) == IF klass = "CacheControl.ts" THEN obj[d] ELSE Dir_get(obj, d)

\* Serialize and Parse of the class in use.
Serialize(obj) == IF klass = "CacheControl.ts" THEN CC_toString(obj) ELSE Dir_toString(obj)

Parse(string) ==
    IF klass = "CacheControl.ts" THEN CC_constructor(string) ELSE Dir_constructor(string)

\* C11: for the object a handler holds, Parse(Serialize(D)) has a boolean directive
\* true exactly when D has it true, for each of the nine boolean directives.
C11_BooleanRoundTrip ==
    impl = "cacheControl" =>
        \A d \in BooleanDirectives :
            (ValueIn(cc, d) = JsTrue) <=> (ValueIn(Parse(Serialize(cc)), d) = JsTrue)

\* C12: for the object a handler holds, every numeric directive that holds an
\* integer v >= 0 (0 included) is reported with exactly v by Parse(Serialize(D)).
C12_NumericRoundTrip ==
    impl = "cacheControl" =>
        \A d \in NumericDirectives :
            (ValueIn(cc, d).type = "number" /\ ValueIn(cc, d).num >= 0)
                => ValueIn(Parse(Serialize(cc)), d) = ValueIn(cc, d)

\* setMaxAge(0) was the last call, the object serializes to "max-age=0" and the
\* string parses back to max-age 0.
C12_Witness ==
    /\ impl = "cacheControl"
    /\ klass = "CacheControl.ts"
    /\ last.op = "setMaxAge"
    /\ cc["max-age"] = JsNumber(0)
    /\ CC_toString(cc) = <<"max-age", "=", "0">>
    /\ CC_constructor(CC_toString(cc))["max-age"] = JsNumber(0)

\* The pieces of a serialized value: what stands between its commas, trimmed.
Pieces(string) ==
    IF string = <<>> THEN <<>>
    ELSE [i \in 1..Len(split(string, ",")) |-> trim(split(string, ",")[i])]

\* The place of a directive in the canonical order (0: not a directive).
Position(name) ==
    IF \E i \in 1..Len(CanonicalOrder) : CanonicalOrder[i] = name
    THEN CHOOSE i \in 1..Len(CanonicalOrder) : CanonicalOrder[i] = name
    ELSE 0

\* C13: Serialize lists the directives it emits in the canonical order max-age,
\* s-maxage, no-cache, no-store, no-transform, must-revalidate, proxy-revalidate,
\* must-understand, private, public, immutable, stale-while-revalidate,
\* stale-if-error, whatever the order in which they were set or parsed.
C13_CanonicalOrder ==
    impl = "cacheControl" =>
        LET pieces == Pieces(Serialize(cc))
        IN  \A i, j \in 1..Len(pieces) :
                ( /\ i < j
                  /\ Position(pieces[i][1]) # 0
                  /\ Position(pieces[j][1]) # 0 )
                    => Position(pieces[i][1]) < Position(pieces[j][1])

\* C14: the object that new CacheControl().setPublic(true).setSMaxage(120)
\* .setMaxAge(60) builds, assigned to Cache-Control, gives the response header
\* value "public, s-maxage=120, max-age=60"; the object that
\* new CacheControl().set("public", true).set("max-age", 3600) builds serializes
\* to "public, max-age=3600".
C14_SerializesInCallOrder ==
    impl = "cacheControl" =>
        /\ ( /\ klass = "CacheControl.ts"
             /\ cc = [CC_empty EXCEPT !["public"] = JsTrue,
                                      !["s-maxage"] = JsNumber(120),
                                      !["max-age"] = JsNumber(60)]
             /\ last.op = "cacheControl.set"
             /\ last.target = OneTarget("Cache-Control") )
           => setHeaders["cache-control"] =
                 <<"public", ",", " ", "s-maxage", "=", "1", "2", "0", ",", " ",
                   "max-age", "=", "6", "0">>
        /\ ( /\ klass = "part_002"
             /\ cc = << [key |-> "public", value |-> JsTrue],
                        [key |-> "max-age", value |-> JsNumber(3600)] >> )
           => Dir_toString(cc) = <<"public", ",", " ", "max-age", "=", "3", "6", "0", "0">>

\* The token Serialize is to emit for directive d of obj, <<>> when none.
TokenFor(obj, d) ==
    LET v == ValueIn(obj, d)
    IN  IF d \in BooleanDirectives
        THEN IF v = JsTrue THEN <<d>> ELSE <<>>
        ELSE IF v.type = "number" THEN <<d, "=">> \o NumberToString(v) ELSE <<>>

\* C15: Serialize emits a token for a directive exactly when it is a boolean
\* directive holding true (the bare name) or a numeric directive holding a number
\* that is not NaN (name=value); unset, false, undefined and NaN give no token;
\* the tokens are joined by ", " and nothing is emitted for an empty object.
C15_TokensOfTruthyDirectives ==
    impl = "cacheControl" =>
        LET pieces == Pieces(Serialize(cc))
        IN  /\ Serialize(cc) = join(pieces, <<",", " ">>)
            /\ \A d \in Range(CanonicalOrder) :
                   LET at == {i \in 1..Len(pieces) : pieces[i][1] = d}
                   IN  IF TokenFor(cc, d) = <<>> THEN at = {}
                       ELSE /\ Cardinality(at) = 1
                            /\ \A i \in at : pieces[i] = TokenFor(cc, d)
            /\ (\A d \in Range(CanonicalOrder) : ValueIn(cc, d) = JsUndefined)
                   => \A i \in 1..Len(pieces) : Position(pieces[i][1]) = 0

\* The handler's object is what parsing the string last.value gave.
Parsed ==
    /\ impl = "cacheControl"
    /\ last.op \in {"new", "cacheControl.get"}
    /\ last.value # Undefined

\* The lower-cased tokens of a header value.
Tokens(string) ==
    [i \in 1..Len(split(string, ",")) |-> toLowerCase(trim(split(string, ",")[i]))]

\* Some token of the string names directive d.
Names(string, d) ==
    \E i \in 1..Len(Tokens(string)) :
        Tokens(string)[i] # <<>> /\ Tokens(string)[i][1] = d
            /\ (Len(Tokens(string)[i]) >= 2 => Tokens(string)[i][2] = "=")

\* C16: Parse is tolerant: the parsed object has no entry but for the thirteen
\* directives, and holds a directive only if some token names it;
\* "public, max-age=60, bogus-directive, s-maxage=abc" gives public true,
\* max-age 60 and nothing else, and "" gives every directive unset.
C16_ParseTolerant ==
    Parsed =>
        /\ klass = "part_002" =>
               \A i \in 1..Len(cc) : cc[i].key \in Range(CanonicalOrder)
        /\ \A d \in Range(CanonicalOrder) :
               ValueIn(cc, d) # JsUndefined => Names(last.value, d)
        /\ last.value = <<"public", ",", " ", "max-age", "=", "6", "0", ",", " ",
                          "bogus-directive", ",", " ", "s-maxage", "=", "abc">>
             => \A d \in Range(CanonicalOrder) :
                    ValueIn(cc, d) = (CASE d = "public" -> JsTrue
                                        [] d = "max-age" -> JsNumber(60)
                                        [] OTHER -> JsUndefined)
        /\ last.value = <<>>
             => \A d \in Range(CanonicalOrder) : ValueIn(cc, d) = JsUndefined

\* C17: after Parse every numeric directive is unset or a non-negative integer,
\* and Serialize of the parsed object emits no sign.
C17_ParsedNumbersNonNegative ==
    Parsed =>
        /\ \A d \in NumericDirectives :
               \/ ValueIn(cc, d) = JsUndefined
               \/ ValueIn(cc, d).type = "number" /\ ValueIn(cc, d).num >= 0
        /\ \A i \in 1..Len(Serialize(cc)) : Serialize(cc)[i] \notin {"-", "+"}

\* C18: a plugin set up without header names manages exactly Cache-Control, one
\* set up with names manages exactly these, and no operation changes what is
\* managed.
C18_ManagedHeadersFixed ==
    /\ [](impl \in {"request", "cacheControl"} =>
             /\ Len(args) = 0 => configured = <<"Cache-Control">>
             /\ Len(args) # 0 => configured = args
             /\ impl = "request" => cacheControlHeaders = configured)
    /\ [][configured' = configured /\ cacheControlHeaders' = cacheControlHeaders]_vars

\* cdnCache() without names has served a call that wrote the Cache-Control slot.
C18_Witness ==
    /\ impl = "request"
    /\ args = <<>>
    /\ cacheControlHeaders = <<"Cache-Control">>
    /\ ncalls >= 1
    /\ Outbound["Cache-Control"] # ContextHeaders(request)["Cache-Control"]

\* Some token of the string gives directive d a value that starts with digits
\* (after an optional sign).
NamesWithInteger(string, d) ==
    \E i \in 1..Len(Tokens(string)) :
        LET token == Tokens(string)[i]
            IsDigit(a) == \E k \in 1..Len(Digits) : Digits[k] = a
        IN  /\ Len(token) >= 3
            /\ token[1] = d
            /\ token[2] = "="
            /\ \/ IsDigit(token[3])
               \/ Len(token) >= 4 /\ token[3] \in {"-", "+"} /\ IsDigit(token[4])

\* C20: after Parse a numeric directive is unset (not 0) unless some token gives it
\* an integer: "max-age", "max-age=" and "s-maxage=abc" leave it unset, and the
\* other tokens count as they stand: "public, max-age=, s-maxage=60" gives public
\* true and s-maxage 60.
C20_UnusableNumberLeftUnset ==
    Parsed =>
        /\ \A d \in NumericDirectives :
               ~NamesWithInteger(last.value, d) => ValueIn(cc, d) = JsUndefined
        /\ last.value \in {<<"max-age">>, <<"max-age", "=">>, <<"s-maxage", "=", "abc">>}
             => \A d \in Range(CanonicalOrder) : ValueIn(cc, d) = JsUndefined
        /\ last.value = <<"public", ",", " ", "max-age", "=", ",", " ",
                          "s-maxage", "=", "6", "0">>
             => \A d \in Range(CanonicalOrder) :
                    ValueIn(cc, d) = (CASE d = "public" -> JsTrue
                                        [] d = "s-maxage" -> JsNumber(60)
                                        [] OTHER -> JsUndefined)

\* "public, max-age=, s-maxage=60" was parsed: max-age is unset, public and
\* s-maxage are held.
C20_Witness ==
    /\ Parsed
    /\ klass = "part_002"
    /\ last.value = <<"public", ",", " ", "max-age", "=", ",", " ", "s-maxage", "=", "6", "0">>
    /\ Dir_get(cc, "max-age") = JsUndefined
    /\ Dir_get(cc, "s-maxage") = JsNumber(60)
    /\ Dir_get(cc, "public") = JsTrue

\* What a setter call of the running handler is to leave under key n of its
\* outbound record, told from the handler's own request and record alone.
OutboundAfterCall(n) ==
    IF impl = "targeted"
    THEN IF n \in ConfiguredHeaders /\ ~SuppressedFor(n)
         THEN Appended(Outbound[n], TokenOfCall, Occurrences(n))
         ELSE Outbound[n]
    ELSE IF n \in Range(configured) /\ ~(\E h \in ConfiguredHeaders : SuppressedFor(h))
         THEN Appended(Outbound[n], TokenOfCall, SlotVisits(n))
         ELSE Outbound[n]

\* C19: requests in flight do not interfere.  A setter call of the running handler
\* leaves the other request's inbound and outbound headers as they are, and what
\* it appends or withholds follows from its own request alone; when the handlers
\* take turns, each finds its request and its outbound headers as it left them.
\* So each request ends with the outbound headers its calls give when run alone.
C19_RequestsDoNotInterfere ==
    [][ parked.id # 0 =>
          /\ parked'.id = parked.id =>
                /\ parked' = parked
                /\ request' = request
                /\ \A n \in HeaderNames : Outbound'[n] = OutboundAfterCall(n)
          /\ parked'.id # parked.id =>
                /\ request' = parked.request
                /\ headers' = parked.headers
                /\ setHeaders' = parked.setHeaders
                /\ parked'.request = request
                /\ parked'.headers = headers
                /\ parked'.setHeaders = setHeaders ]_vars

\* Through the process-wide request controller, the handlers of two requests have
\* each called setPublic: the request that brought no-store has nothing appended,
\* the other has public.
C19_Witness ==
    /\ impl = "request"
    /\ passed = "set.headers"
    /\ parked.id # 0
    /\ ncalls = 1
    /\ parked.ncalls = 1
    /\ last.op = "setPublic"
    /\ parked.last.op = "setPublic"
    /\ request["cache-control"] = <<"no-store">>
    /\ parked.request["cache-control"] = Undefined
    /\ setHeaders["Cache-Control"] = Undefined
    /\ parked.setHeaders["Cache-Control"] = <<"public">>

\* The token names the numeric directive d and gives it an integer.
GivesInteger(token, d) ==
    LET IsDigit(a) == \E k \in 1..Len(Digits) : Digits[k] = a
    IN  /\ Len(token) >= 3
        /\ token[1] = d
        /\ token[2] = "="
        /\ \/ IsDigit(token[3])
           \/ Len(token) >= 4 /\ token[3] \in {"-", "+"} /\ IsDigit(token[4])

\* The integer the last token of string naming d gives it.
LastInteger(string, d) ==
    LET tokens == Tokens(string)
        i == CHOOSE j \in 1..Len(tokens) :
                /\ GivesInteger(tokens[j], d)
                /\ \A k \in (j + 1)..Len(tokens) : ~GivesInteger(tokens[k], d)
    IN  parseInt(SubSeq(tokens[i], 3, Len(tokens[i])))

\* The number of tokens of string that are the bare name d.
BareOccurrences(string, d) ==
    Cardinality({i \in 1..Len(Tokens(string)) : Tokens(string)[i] = <<d>>})

\* C21: after parsing a header value, a numeric directive that several tokens give
\* an integer holds the integer of the last of them ("max-age=10, max-age=20"
\* gives max-age 20), and a boolean directive named by several tokens is true.
C21_LastOccurrenceWins ==
    Parsed =>
        /\ \A d \in NumericDirectives :
               NamesWithInteger(last.value, d)
                   => ValueIn(cc, d) = LastInteger(last.value, d)
        /\ \A d \in BooleanDirectives :
               BareOccurrences(last.value, d) >= 2 => ValueIn(cc, d) = JsTrue
        /\ last.value = <<"max-age", "=", "1", "0", ",", " ", "max-age", "=", "2", "0">>
             => ValueIn(cc, "max-age") = JsNumber(20)
        /\ last.value = <<"public", ",", " ", "max-age", "=", "2", "0", ",", " ",
                          "Public", ",", " ", "max-age", "=", "1", "0">>
             => ValueIn(cc, "max-age") = JsNumber(10) /\ ValueIn(cc, "public") = JsTrue

\* A header value naming max-age twice has been parsed.
C21_Witness ==
    /\ Parsed
    /\ last.value = <<"max-age", "=", "1", "0", ",", " ", "max-age", "=", "2", "0">>
    /\ ValueIn(cc, "max-age") = JsNumber(20)

\* The slot value v ends with the atoms s.
EndsWith(v, s) ==
    /\ v # Undefined
    /\ Len(v) >= Len(s)
    /\ SubSeq(v, Len(v) - Len(s) + 1, Len(v)) = s

\* The headers a target resolves to, case folded.
TargetsOf(target) ==
    IF target.kind = "undefined" THEN ConfiguredHeaders
    ELSE {toLowerCaseAtom(n) : n \in Range(target.names)}

\* C22 (targeted controller): there is no duplicate protection.  A call whose
\* target list names a non-suppressed header twice, in the same or in another
\* letter case, appends its token twice to that header's slot; and a call that
\* repeats the call before it, for a header both resolve to, leaves that slot
\* ending with the token twice.
C22_NoDuplicateProtection ==
    [][ (IsCall /\ impl = "targeted") =>
          \A h \in ConfiguredHeaders :
              ~SuppressedFor(h) =>
                  /\ Occurrences(h) >= 2 =>
                        /\ setHeaders'[h] = Appended(setHeaders[h], TokenOfCall, Occurrences(h))
                        /\ EndsWith(setHeaders'[h], TokenOfCall \o <<",", " ">> \o TokenOfCall)
                  /\ ( /\ ncalls >= 1
                       /\ last.op = last'.op /\ last.value = last'.value
                       /\ h \in TargetsOf(last.target)
                       /\ Occurrences(h) >= 1 )
                     => /\ setHeaders'[h] = Appended(setHeaders[h], TokenOfCall, Occurrences(h))
                        /\ EndsWith(setHeaders'[h],
                                    TokenOfCall \o <<",", " ">> \o TokenOfCall) ]_vars

\* One setPublic call whose target list spells the same header in two letter
\* cases has left "public, public" in that header's slot.
C22_Witness ==
    /\ impl = "targeted"
    /\ ncalls = 1
    /\ last.op = "setPublic"
    /\ last.target = ArrayTarget(<<"Cache-Control", "cache-control">>)
    /\ request["cache-control"] = Undefined
    /\ setHeaders["cache-control"] = <<"public", ",", " ", "public">>

\* The call of the step is withheld from header h: by h's own inbound value on
\* the targeted controller, by the inbound value of any configured header on the
\* request controller.
Withheld(h) ==
    IF impl = "targeted" THEN SuppressedFor(h)
    ELSE \E g \in ConfiguredHeaders : SuppressedFor(g)

\* C23: suppression looks only at the request.  A call leaves the request as it
\* is, and a slot it visits changes exactly when the inbound values do not
\* withhold the call, whatever the slots hold from earlier calls.  So with no
\* inbound value setMaxAge(60) after setNoStore() gives "no-store, max-age=60"
\* and setPublic() after setPrivate() gives "private, public".
C23_SuppressionReadsRequestOnly ==
    [][ IsCall =>
          /\ request' = request
          /\ \A h \in ConfiguredHeaders : \A k \in SlotKeys(h) :
                SlotVisits(k) >= 1 => ((Outbound'[k] # Outbound[k]) <=> ~Withheld(h))
          /\ ( /\ configured = <<"Cache-Control">>
               /\ request["cache-control"] = Undefined
               /\ last'.target = NoTarget )
             => \A k \in SlotKeys("cache-control") :
                  /\ ( /\ Outbound[k] = <<"no-store">>
                       /\ last'.op = "setMaxAge" /\ last'.value = 60 )
                        => Outbound'[k] = <<"no-store", ",", " ", "max-age", "=", "6", "0">>
                  /\ (Outbound[k] = <<"private">> /\ last'.op = "setPublic")
                        => Outbound'[k] = <<"private", ",", " ", "public">> ]_vars

\* With no inbound value, setPrivate() followed by setPublic() has left
\* "private, public".
C23_Witness ==
    /\ configured = <<"Cache-Control">>
    /\ request["cache-control"] = Undefined
    /\ ncalls = 2
    /\ last.op = "setPublic" /\ last.target = NoTarget
    /\ \E k \in SlotKeys("cache-control") :
          Outbound[k] = <<"private", ",", " ", "public">>

\* C24: a numeric setter called with 0 appends directive=0 to every slot it
\* visits that the inbound values do not withhold it from: "max-age=0",
\* "s-maxage=0", "stale-while-revalidate=0" or "stale-if-error=0", not the bare
\* name, and not nothing.
C24_ZeroIsAppendedWithValue ==
    [][ (IsCall /\ last'.op \in NumericSetters /\ last'.value = 0) =>
          \A h \in ConfiguredHeaders : \A k \in SlotKeys(h) :
              (SlotVisits(k) >= 1 /\ ~Withheld(h)) =>
                  /\ Outbound'[k] # Outbound[k]
                  /\ Outbound'[k] = Appended(Outbound[k], <<DirectiveOf[last'.op], "=", "0">>,
                                            SlotVisits(k))
                  /\ EndsWith(Outbound'[k], <<DirectiveOf[last'.op], "=", "0">>) ]_vars

\* setStaleIfError with 0 has been appended after another token.
C24_Witness ==
    /\ ncalls = 2
    /\ last.op = "setStaleIfError" /\ last.value = 0
    /\ \E n \in HeaderNames :
          EndsWith(Outbound[n], <<",", " ", "stale-if-error", "=", "0">>)

\* C25: the plugin's set(value) for a header puts value.toString() in that
\* header's outbound slot in place of what the slot held, and leaves every other
\* slot, the inbound map and the object as they are.  get() builds its result
\* from the header's inbound value alone, whatever the handler built or changed
\* before, and no builder call changes the inbound map or an outbound slot.
C25_SetReplacesGetIsFresh ==
    [][ impl = "cacheControl" =>
          /\ request' = request
          /\ headers' = headers
          /\ (ncalls' = ncalls /\ last'.op = "cacheControl.set") =>
                LET key == toLowerCaseAtom(last'.target.names[1])
                IN  /\ setHeaders'[key] = Serialize(cc)
                    /\ \A n \in HeaderNames : n # key => setHeaders'[n] = setHeaders[n]
                    /\ cc' = cc
          /\ IsCall => setHeaders' = setHeaders
          /\ (IsCall /\ last'.op = "cacheControl.get") =>
                \E h \in ConfiguredHeaders :
                    /\ last'.value = headers[h]
                    /\ cc' = Parse(headers[h]) ]_vars

\* Both slots have been assigned, the second from a fresh object that serializes
\* to another string than the first.
C25_Witness ==
    /\ impl = "cacheControl"
    /\ last.op = "cacheControl.set" /\ last.target = OneTarget("Cache-Control")
    /\ setHeaders["cache-control"] = Serialize(cc)
    /\ setHeaders["cdn-cache-control"] # Undefined
    /\ setHeaders["cdn-cache-control"] # setHeaders["cache-control"]

====
